---- MODULE Spec2Model ----
(***************************************************************************)
(* The prediction-detail page of the stock predictor: the weekly chart     *)
(* scrubber (currentDayIndex, the two weekly series, the derived metrics   *)
(* written to the DOM), the range buttons and their fetches, the delayed   *)
(* pill updates.  Source: src/unnamed/part_004.                            *)
(*                                                                         *)
(* JavaScript values are modelled by what the code does with them:         *)
(* numbers are exact rationals n/d, NaN and +-Infinity; null and undefined *)
(* are kept apart; toFixed and parseFloat are computed, texts are records. *)
(***************************************************************************)
EXTENDS Integers, Sequences, FiniteSets, TLC

\* ------------------------------------------------------------------ bounds
\* calls of setRangeWithData, the one of the page load included
MaxCalls == 2
\* fetches that may be in flight at once
MaxInFlight == 2
\* successful runs of setupWeeklySlider (each registers its listeners again)
MaxSetups == 2
\* pending setTimeout callbacks
MaxTimers == 3
\* pointer positions are the multiples of 1/PointerGrid of the track width
PointerGrid == 8
\* clicks on the dates of the discovery page
MaxClicks == 2
\* how many days before the last one the keyboard selection is followed
MaxBack == 1

\* ------------------------------------------------------- JavaScript values
Null == [t |-> "null", n |-> 0, d |-> 1]
Undef == [t |-> "undefined", n |-> 0, d |-> 1]
NaN == [t |-> "nan", n |-> 0, d |-> 1]
PosInf == [t |-> "inf", n |-> 1, d |-> 1]
NegInf == [t |-> "inf", n |-> -1, d |-> 1]

AbsInt(i) == IF i < 0 THEN -i ELSE i

RECURSIVE Gcd(_, _)
Gcd(a, b) == IF b = 0 THEN a ELSE Gcd(b, a % b)

\* the rational n/d (d # 0) in lowest terms with a positive denominator
Q(n, d) ==
  LET g == Gcd(AbsInt(n), AbsInt(d))
      s == IF d < 0 THEN -1 ELSE 1
  IN [t |-> "num", n |-> (s * n) \div g, d |-> (s * d) \div g]

Num(i) == [t |-> "num", n |-> i, d |-> 1]

\* ToNumber: null is 0, undefined is NaN
ToNumber(v) ==
  IF v.t = "null" THEN Num(0)
  ELSE IF v.t = "undefined" THEN NaN
  ELSE v

\* a - b on prices (finite numbers, null or undefined)
JsSub(a, b) ==
  LET x == ToNumber(a)
      y == ToNumber(b)
  IN IF x.t # "num" \/ y.t # "num" THEN NaN
     ELSE Q(x.n * y.d - y.n * x.d, x.d * y.d)

\* a / b: a finite or NaN, b a price
JsDiv(a, b) ==
  LET x == ToNumber(a)
      y == ToNumber(b)
  IN IF x.t # "num" \/ y.t # "num" THEN NaN
     ELSE IF y.n = 0
          THEN (IF x.n = 0 THEN NaN ELSE IF x.n > 0 THEN PosInf ELSE NegInf)
          ELSE Q(x.n * y.d, x.d * y.n)

\* a * k for a positive integer k
JsMul(a, k) == IF a.t = "num" THEN Q(a.n * k, a.d) ELSE a

\* the signed value kept (Math.abs left out)
JsKeepSign(a) == a

\* Math.abs
JsAbs(a) ==
  IF a.t = "num" THEN [a EXCEPT !.n = AbsInt(a.n)]
  ELSE IF a.t = "inf" THEN PosInf
  ELSE a

\* a >= 0 (false for NaN; null >= 0 is true, undefined >= 0 is false)
JsGe0(a) ==
  LET x == ToNumber(a)
  IN IF x.t = "nan" THEN FALSE ELSE x.n >= 0

\* a > 0
JsGt0(a) ==
  LET x == ToNumber(a)
  IN IF x.t = "nan" THEN FALSE ELSE x.n > 0

\* truthiness of a price: null, undefined, NaN and 0 are falsy
Truthy(a) == a.t = "inf" \/ (a.t = "num" /\ a.n # 0)

\* x.toFixed is a TypeError on null and undefined
HasToFixed(a) == a.t \notin {"null", "undefined"}

Pow10(k) == IF k = 0 THEN 1 ELSE IF k = 1 THEN 10 ELSE 100

\* ------------------------------------------------------------------- texts
\* A text is pre ++ body ++ suf; body is a literal, or the digits of toFixed:
\* "-" when neg, then mag / 10^dp written with dp decimals.
Lit(s) == [pre |-> "", body |-> s, neg |-> FALSE, mag |-> 0, dp |-> 0, suf |-> ""]

\* Number.prototype.toFixed(dp): the nearest multiple of 10^-dp, the larger one
\* on a tie; the sign is taken from the number before rounding
ToFixed(a, dp) ==
  IF a.t = "nan" THEN Lit("NaN")
  ELSE IF a.t = "inf" THEN [Lit("Infinity") EXCEPT !.neg = (a.n < 0)]
  ELSE [pre |-> "", body |-> "fixed", neg |-> (a.n < 0),
        mag |-> (2 * AbsInt(a.n) * Pow10(dp) + a.d) \div (2 * a.d),
        dp |-> dp, suf |-> ""]

\* `$${x.toFixed(dp)}`
Money(a, dp) == [ToFixed(a, dp) EXCEPT !.pre = "$"]

\* `${x >= 0 ? '+' : ''}${x.toFixed(1)}%`
Percent(a) == [ToFixed(a, 1) EXCEPT !.pre = (IF JsGe0(a) THEN "+" ELSE ""), !.suf = "%"]

\* parseFloat(text.replace(/[+%]/g, ''))
ParsePercent(txt) ==
  IF txt.pre \notin {"", "+"} THEN NaN
  ELSE IF txt.body = "fixed"
       THEN Q((IF txt.neg THEN -1 ELSE 1) * txt.mag, Pow10(txt.dp))
  ELSE IF txt.body = "Infinity" THEN (IF txt.neg THEN NegInf ELSE PosInf)
  ELSE NaN

\* ---------------------------------------------------------- backend data
\* JavaScript array read: undefined outside the array
At(arr, i) == IF i >= 0 /\ i < Len(arr) THEN arr[i + 1] ELSE Undef

\* data.data of a weekly endpoint; dates are ISO days, written as day numbers
Series(dates, prices, prev) ==
  [tag |-> "series", dates |-> dates, prices |-> prices, previous_day_price |-> prev]

\* the value null of weeklyPredictionData / weeklyHistoricalData, and what
\* loadWeekly...Data returns on success:false or a network error
NullData == [tag |-> "null", dates |-> <<>>, prices |-> <<>>, previous_day_price |-> Undef]

\* a fetch that has not answered yet
Pending == [tag |-> "pending", dates |-> <<>>, prices |-> <<>>, previous_day_price |-> Undef]

Days(k) == [i \in 1..k |-> Num(i)]

\* what /api/weekly-historical has for the ticker: a week with the last day
\* not closed, a week with a hole on day 1 and no previous_day_price, a
\* malformed week of 4 points
HistWeeks ==
  { Series(Days(5), <<Num(100), Num(102), Num(101), Num(103), Null>>, Num(99)),
    Series(Days(5), <<Num(100), Null, Num(101), Num(103), Num(104)>>, Null),
    Series(Days(4), <<Num(100), Num(102), Num(101), Num(103)>>, Num(99)) }

\* what /api/weekly-predictions has for the ticker: a week of 5 points, a
\* malformed week of 4 points
PredWeeks ==
  { Series(Days(5), <<Num(101), Num(103), Num(100), Num(104), Num(105)>>, Undef),
    Series(Days(4), <<Num(101), Num(103), Num(100), Num(104)>>, Undef) }

\* /api/historical-prices answers, as far as setRangeWithData reads them
StaticAnswers == {"labels", "null"}

\* data-range of the range buttons; 1M stands for 1Y too, which takes the same
\* branch of setRangeWithData
Periods == {"1W", "1M"}

\* element ids the page may lack (one at a time)
MissingChoices == { {}, {"realVal"}, {"startLabel"}, {"chartKnob"} }

\* widths of the chart's SVG box
Widths == {300, 600}

\* ------------------------------------------------------------------- state
VARIABLES
  page,                  \* "loading" | "ready" | "failed": loadPredictionData
  backend,               \* the two weekly series the server has for the ticker
  missing,               \* ids for which getElementById returns null
  weeklyPredictionData,
  weeklyHistoricalData,
  currentDayIndex,
  inflight,              \* requests of setRangeWithData not yet answered, oldest first
  disp,                  \* textContent of the metrics fields and labels
  pills,                 \* up/down class of #predChange and #realPriceChange
  svg,                   \* what #lineChart holds, and for which period
  vis,                   \* style.display of slider, guide, metrics, date chip; explanation blocks
  knob,                  \* style.left (in 1/300 of the track) and aria-valuenow of #chartKnob
  guide,                 \* style.left of #vGuide, in quarter pixels
  width,                 \* width of the SVG box
  calls,                 \* how many times setRangeWithData has been called
  listeners,             \* how many times setupWeeklySlider has registered its listeners
  drag,                  \* move/up listener pairs on window
  timers,                \* pending pill-update timeouts
  values,                \* what the last step's calculateDynamicValues returned
  threw,                 \* the last step raised an uncaught exception
  ev,                    \* the last event
  discovery              \* the discovery page (discovery.js), a record

vars == <<page, backend, missing, weeklyPredictionData, weeklyHistoricalData, currentDayIndex,
          inflight, disp, pills, svg, vis, knob, guide, width, calls, listeners, drag,
          timers, values, threw, ev, discovery>>

Has(id) == id \notin missing

\* ----------------------------------------------------------------- metrics
NoValues ==
  [ok |-> FALSE, date |-> Undef, predicted_price |-> Undef, predicted_change |-> Undef,
   real_price |-> Undef, real_change |-> Undef, difference |-> Undef,
   difference_pct |-> Undef]

\* The mutable program state as one record, threaded through the handlers.
\* exc: the running handler has thrown and the rest of it is skipped.
Machine ==
  [wp |-> weeklyPredictionData, wh |-> weeklyHistoricalData, idx |-> currentDayIndex,
   inflight |-> inflight, disp |-> disp, pills |-> pills, svg |-> svg, vis |-> vis,
   knob |-> knob, guide |-> guide, width |-> width, calls |-> calls, listeners |-> listeners, drag |-> drag,
   timers |-> timers, values |-> NoValues, exc |-> FALSE, threw |-> FALSE]

\* ((price - prev) / prev) * 100
PctChange(price, prev) == JsMul(JsDiv(JsSub(price, prev), prev), 100)

\* the baseline taken from the predicted series instead
prevPredictedPrice(histData, predData, dayIndex) == At(predData.prices, dayIndex - 1)

\* the price the changes of day dayIndex > 0 are measured against
prevRealPrice(histData, predData, dayIndex) == At(histData.prices, dayIndex - 1)

\* histData.previous_day_price && histData.previous_day_price > 0
HasPrevDayPrice(histData) ==
  Truthy(histData.previous_day_price) /\ JsGt0(histData.previous_day_price)

\* the metrics without the test of the index against the predicted series
calculateDynamicValuesAnyIndex(predData, histData, dayIndex) ==
  IF predData.tag = "null" \/ histData.tag = "null" THEN NoValues
  ELSE
    LET predicted_price == At(predData.prices, dayIndex)
        real_price == At(histData.prices, dayIndex)
        useBase == dayIndex > 0 \/ HasPrevDayPrice(histData)
        base == IF dayIndex > 0 THEN prevRealPrice(histData, predData, dayIndex)
                ELSE histData.previous_day_price
        difference == JsSub(predicted_price, real_price)
    IN [ok |-> TRUE,
        date |-> At(predData.dates, dayIndex),
        predicted_price |-> predicted_price,
        predicted_change |-> IF useBase THEN PctChange(predicted_price, base) ELSE Num(0),
        real_price |-> real_price,
        real_change |-> IF useBase THEN PctChange(real_price, base) ELSE Num(0),
        difference |-> JsAbs(difference),
        difference_pct |-> JsMul(JsDiv(difference, real_price), 100)]

calculateDynamicValues(predData, histData, dayIndex) ==
  IF predData.tag = "null" \/ histData.tag = "null" THEN NoValues
  ELSE IF dayIndex < 0 \/ dayIndex >= Len(predData.dates) THEN NoValues
  ELSE
    LET predicted_price == At(predData.prices, dayIndex)
        real_price == At(histData.prices, dayIndex)
        useBase == dayIndex > 0 \/ HasPrevDayPrice(histData)
        base == IF dayIndex > 0 THEN prevRealPrice(histData, predData, dayIndex)
                ELSE histData.previous_day_price
        difference == JsSub(predicted_price, real_price)
    IN [ok |-> TRUE,
        date |-> At(predData.dates, dayIndex),
        predicted_price |-> predicted_price,
        predicted_change |-> IF useBase THEN PctChange(predicted_price, base) ELSE Num(0),
        real_price |-> real_price,
        real_change |-> IF useBase THEN PctChange(real_price, base) ELSE Num(0),
        difference |-> JsAbs(difference),
        difference_pct |-> JsMul(JsDiv(difference, real_price), 100)]

\* toLocaleDateString('en-US', ...) of new Date(date + 'T00:00:00')
FormatDate(date) ==
  IF date.t = "num" THEN [Lit("en-US date") EXCEPT !.mag = date.n] ELSE Lit("Invalid Date")

\* an ISO date string written as it is
IsoDate(date) ==
  IF date.t = "num" THEN [Lit("ISO date") EXCEPT !.mag = date.n] ELSE Lit("")

\* document.getElementById(id).textContent = text, where computing text throws
\* when ~ok
Write(id, ok, text) == [id |-> id, ok |-> ok, text |-> text]

\* the statements of ws in order; the first one whose element is missing or
\* whose text cannot be computed throws a TypeError and ends the run
RECURSIVE RunWrites(_, _)
RunWrites(m, ws) ==
  IF ws = <<>> \/ m.exc THEN m
  ELSE LET w == Head(ws)
       IN IF Has(w.id) /\ w.ok
          THEN RunWrites([m EXCEPT !.disp[w.id] = w.text], Tail(ws))
          ELSE [m EXCEPT !.exc = TRUE]

\* is dayIndex the last day of the prediction series
isLastDay(predData, dayIndex) == dayIndex = Len(predData.dates) - 1

\* a test that only asks whether the day has an entry
realPriceDefined(v) == v.real_price.t # "undefined"

\* values.real_price && values.real_price > 0
hasValidRealPrice(v) == Truthy(v.real_price) /\ JsGt0(v.real_price)

\* the real-price fields of updateDisplayValues
RealWrites(m, v, dayIndex) ==
  IF isLastDay(m.wp, dayIndex) /\ ~hasValidRealPrice(v)
  THEN << Write("realVal", TRUE, Lit("Unknown")),
          Write("realPriceChange", TRUE, Lit("--")),
          Write("diffVal", TRUE, Lit("Unknown")),
          Write("diffChange", TRUE, Lit("--")) >>
  ELSE << Write("realVal", HasToFixed(v.real_price), Money(v.real_price, 2)),
          Write("realPriceChange", TRUE, Percent(v.real_change)) >>

\* the statements of updateDisplayValues that write the fields, for values v
DisplayWrites(m, v, dayIndex) ==
  << Write("diffVal", TRUE, Money(v.difference, 1)),
     Write("diffChange", TRUE, Percent(v.difference_pct)),
     Write("predVal", HasToFixed(v.predicted_price), Money(v.predicted_price, 2)),
     Write("predChange", TRUE, Percent(v.predicted_change)) >>
  \o RealWrites(m, v, dayIndex)
  \o << Write("dateChip", TRUE, FormatDate(v.date)) >>

\* the end of updateDisplayValues: setTimeout(..., 50), not reached after a throw
SchedulePillUpdate(m) == IF m.exc THEN m ELSE [m EXCEPT !.timers = @ + 1]

\* the fields written without the test of what calculateDynamicValues returned
ShowValuesUnchecked(m, v, dayIndex) ==
  SchedulePillUpdate(RunWrites([m EXCEPT !.values = v], DisplayWrites(m, v, dayIndex)))

\* the date chip appended to (textContent +=) instead of replaced; dp counts the
\* appended texts
ShowValuesAppend(m, v, dayIndex) ==
  IF ~v.ok THEN [m EXCEPT !.values = v]
  ELSE [SchedulePillUpdate(RunWrites([m EXCEPT !.values = v], DisplayWrites(m, v, dayIndex)))
          EXCEPT !.disp["dateChip"].dp = m.disp["dateChip"].dp + 1]

\* updateDisplayValues once calculateDynamicValues has returned v
ShowValues(m, v, dayIndex) ==
  IF ~v.ok THEN [m EXCEPT !.values = v]
  ELSE SchedulePillUpdate(RunWrites([m EXCEPT !.values = v], DisplayWrites(m, v, dayIndex)))

updateDisplayValues(m, dayIndex) ==
  ShowValues(m, calculateDynamicValues(m.wp, m.wh, dayIndex), dayIndex)

\* the test inverted: down when the change is >= 0
updatePillClassesInverted(m, predChangeValue, realChangeValue) ==
  IF ~Has("predChange") \/ ~Has("realPriceChange") THEN m
  ELSE [m EXCEPT !.pills = [pred |-> IF JsGe0(predChangeValue) THEN "down" ELSE "up",
                            real |-> IF JsGe0(realChangeValue) THEN "down" ELSE "up"]]

\* the up/down classes the pill update gives to the two pills
updatePillClasses(m, predChangeValue, realChangeValue) ==
  IF ~Has("predChange") \/ ~Has("realPriceChange") THEN m
  ELSE [m EXCEPT !.pills = [pred |-> IF JsGe0(predChangeValue) THEN "up" ELSE "down",
                            real |-> IF JsGe0(realChangeValue) THEN "up" ELSE "down"]]

\* the body of both setTimeout callbacks: read the two texts back, parse, update
PillTimer(m) ==
  IF ~Has("predChange") \/ ~Has("realPriceChange") THEN [m EXCEPT !.exc = TRUE]
  ELSE updatePillClasses(m, ParsePercent(m.disp["predChange"]),
                         ParsePercent(m.disp["realPriceChange"]))

\* ------------------------------------------------------------------ slider
\* const positions = [0, 0.25, 0.5, 0.75, 1.0], in percent
positions == <<0, 25, 50, 75, 100>>

\* const pad = 10
pad == 10

\* w of drawWeeklyComparisonChart, the viewBox width the knob is placed in
viewBoxWidth == 300

\* |rawPercent - positions[i]| in units of 1 / (100 * PointerGrid);
\* rawPercent is raw / PointerGrid
Distance(raw, i) == AbsInt(100 * raw - positions[i + 1] * PointerGrid)

\* the for loop of snapToNearestPosition from index i on
RECURSIVE SnapLoop(_, _, _, _)
SnapLoop(raw, i, closest, minDistance) ==
  IF i >= Len(positions) THEN closest
  ELSE IF Distance(raw, i) < minDistance
       THEN SnapLoop(raw, i + 1, i, Distance(raw, i))
       ELSE SnapLoop(raw, i + 1, closest, minDistance)

\* the nearest stop with the higher index winning a tie (<= for <)
snapTiesUp(raw) ==
  CHOOSE i \in 0..(Len(positions) - 1) :
    \A j \in 0..(Len(positions) - 1) :
      /\ Distance(raw, i) <= Distance(raw, j)
      /\ Distance(raw, i) = Distance(raw, j) => i >= j

snapToNearestPosition(raw) == SnapLoop(raw, 1, 0, Distance(raw, 0))

\* Math.max(0, Math.min(1, (clientX - rect.left) / rect.width)), with the track
\* at rect.left = 0 and PointerGrid units wide; the result in 1/PointerGrid
pointerToPercent(clientX) ==
  IF clientX < 0 THEN 0 ELSE IF clientX > PointerGrid THEN PointerGrid ELSE clientX

\* the knob placed at positions[dayIndex] of the track, without the padding
KnobAtUnpadded(dayIndex) ==
  IF dayIndex >= 0 /\ dayIndex < Len(positions)
  THEN [left |-> positions[dayIndex + 1] * viewBoxWidth,
        valuenow |-> positions[dayIndex + 1]]
  ELSE [left |-> -1, valuenow |-> -1]

\* knob.style.left in 1/100 of a viewBox unit, and aria-valuenow;
\* -1 stands for NaN (positions[dayIndex] undefined)
KnobAt(dayIndex) ==
  IF dayIndex >= 0 /\ dayIndex < Len(positions)
  THEN [left |-> pad * 100 + positions[dayIndex + 1] * (viewBoxWidth - pad * 2),
        valuenow |-> positions[dayIndex + 1]]
  ELSE [left |-> -1, valuenow |-> -1]

\* the guide placed with the viewBox width instead of the measured one
GuideAtViewBox(dayIndex, w) ==
  IF dayIndex >= 0 /\ dayIndex < Len(positions)
  THEN pad * 100 + positions[dayIndex + 1] * (viewBoxWidth - pad * 2)
  ELSE -1

\* vGuide.style.left in 1/100 px, the SVG box starting where the wrap starts
GuideAt(dayIndex, w) ==
  IF dayIndex >= 0 /\ dayIndex < Len(positions)
  THEN pad * 100 + positions[dayIndex + 1] * (w - pad * 2)
  ELSE -1

\* the guide placed from the index selected before the call
updateSliderPositionStaleGuide(m, dayIndex) ==
  updateDisplayValues(
    [m EXCEPT !.knob = KnobAt(dayIndex), !.guide = GuideAt(m.idx, m.width),
              !.idx = dayIndex],
    dayIndex)

updateSliderPosition(m, dayIndex) ==
  updateDisplayValues(
    [m EXCEPT !.knob = KnobAt(dayIndex), !.guide = GuideAt(dayIndex, m.width),
              !.idx = dayIndex],
    dayIndex)

\* what the Home key passes to updateSliderPosition
HomeIndex == 4

\* a keydown listener that passes the bound itself when an arrow key would leave
\* the range
KeyTargetClamped(idx, key) ==
  IF key = "ArrowLeft" THEN (IF idx > 0 THEN idx - 1 ELSE 0)
  ELSE IF key = "ArrowRight"
       THEN (IF idx < Len(positions) - 1 THEN idx + 1 ELSE Len(positions) - 1)
  ELSE IF key = "Home" THEN HomeIndex
  ELSE IF key = "End" THEN Len(positions) - 1
  ELSE -1

\* the index the keydown listener passes to updateSliderPosition: four ifs in a
\* row, of which the key of the event satisfies at most one; -1 when it calls
\* nothing
KeyTarget(idx, key) ==
  IF key = "ArrowLeft" /\ idx > 0 THEN idx - 1
  ELSE IF key = "ArrowRight" /\ idx < Len(positions) - 1 THEN idx + 1
  ELSE IF key = "Home" THEN HomeIndex
  ELSE IF key = "End" THEN Len(positions) - 1
  ELSE -1

\* the keydown listener of the knob
KeyDown(m, key) ==
  IF KeyTarget(m.idx, key) = -1 THEN m
  ELSE updateSliderPosition(m, KeyTarget(m.idx, key))

\* a pointerup handler that leaves its session's listeners on window
upKeepsListeners(m) == m

\* up: the session's move and up listeners are removed from window
up(m) == [m EXCEPT !.drag = @ - 1]

\* one listener of the event e
Listener(m, e) ==
  CASE e.op \in {"track", "move"} ->
         updateSliderPosition(m, snapToNearestPosition(pointerToPercent(e.x)))
    [] e.op = "knobdown" -> [m EXCEPT !.drag = @ + 1]
    [] e.op = "up" -> up(m)
    [] e.op = "key" -> KeyDown(m, e.key)
    [] e.op = "resize" -> updateSliderPosition(m, m.idx)

\* an exception leaving a listener or a callback is reported and goes no further
Settle(m) == [m EXCEPT !.threw = m.threw \/ m.exc, !.exc = FALSE]

\* the event e dispatched to its n listeners, one after the other
RECURSIVE Dispatch(_, _, _)
Dispatch(m, n, e) ==
  IF n = 0 THEN m ELSE Dispatch(Settle(Listener(m, e)), n - 1, e)

\* the slider initialised on the first day instead of the last
setupWeeklySliderFirst(m) ==
  IF ~Has("chartTrack") \/ ~Has("chartKnob") \/ ~Has("vGuide") \/ ~Has("chart-wrap")
     \/ m.wp.tag = "null"
  THEN m
  ELSE updateSliderPosition([m EXCEPT !.listeners = @ + 1], 0)

\* the slider set up without the test of the weekly prediction series
setupWeeklySliderAnyData(m) ==
  IF ~Has("chartTrack") \/ ~Has("chartKnob") \/ ~Has("vGuide") \/ ~Has("chart-wrap")
  THEN m
  ELSE updateSliderPosition([m EXCEPT !.listeners = @ + 1], 4)

setupWeeklySlider(m) ==
  IF ~Has("chartTrack") \/ ~Has("chartKnob") \/ ~Has("vGuide") \/ ~Has("chart-wrap")
     \/ m.wp.tag = "null"
  THEN m
  ELSE updateSliderPosition([m EXCEPT !.listeners = @ + 1], 4)

\* ----------------------------------------------------------- range and fetch
\* a request; overlapped records that setRangeWithData ran again, or another
\* request was pending, while this one was in flight (the code keeps no such mark)
Request(period, overlapped) ==
  [period |-> period, hist |-> Pending, pred |-> Pending, overlapped |-> overlapped]

Chart(kind, period) == [kind |-> kind, period |-> period]

\* showExplanationBlock without the removal of the block that is there
setRangeWithDataStacksBlocks(m, period) ==
  LET m1 == [m EXCEPT !.wp = NullData, !.wh = NullData, !.idx = 4, !.calls = @ + 1]
  IN IF ~Has("lineChart") THEN [m1 EXCEPT !.exc = TRUE]
     ELSE
       LET old == [i \in 1..Len(m1.inflight) |-> [m1.inflight[i] EXCEPT !.overlapped = TRUE]]
           m2 == [m1 EXCEPT !.svg = Chart("loading", period),
                            !.inflight = Append(old, Request(period, old # <<>>))]
       IN IF period = "1W"
          THEN [m2 EXCEPT !.vis = [metrics |-> IF Has(".metrics") THEN "block" ELSE @.metrics,
                                   dateChip |-> IF Has("dateChip") THEN "block" ELSE @.dateChip,
                                   slider |-> IF Has("chartSlider") THEN "block" ELSE @.slider,
                                   vGuide |-> IF Has("vGuide") THEN "block" ELSE @.vGuide,
                                   explanation |-> 0]]
          ELSE [m2 EXCEPT !.vis = [metrics |-> IF Has(".metrics") THEN "none" ELSE @.metrics,
                                   dateChip |-> IF Has("dateChip") THEN "none" ELSE @.dateChip,
                                   slider |-> IF Has("chartSlider") THEN "none" ELSE @.slider,
                                   vGuide |-> IF Has("vGuide") THEN "none" ELSE @.vGuide,
                                   explanation |-> IF Has("chart-wrap") THEN @.explanation + 1
                                                  ELSE 0]]

setRangeWithData(m, period) ==
  LET m1 == [m EXCEPT !.wp = NullData, !.wh = NullData, !.idx = 4, !.calls = @ + 1]
  IN IF ~Has("lineChart") THEN [m1 EXCEPT !.exc = TRUE]
     ELSE
       LET old == [i \in 1..Len(m1.inflight) |-> [m1.inflight[i] EXCEPT !.overlapped = TRUE]]
           m2 == [m1 EXCEPT !.svg = Chart("loading", period),
                            !.inflight = Append(old, Request(period, old # <<>>))]
       IN IF period = "1W"
          THEN [m2 EXCEPT !.vis = [metrics |-> IF Has(".metrics") THEN "block" ELSE @.metrics,
                                   dateChip |-> IF Has("dateChip") THEN "block" ELSE @.dateChip,
                                   slider |-> IF Has("chartSlider") THEN "block" ELSE @.slider,
                                   vGuide |-> IF Has("vGuide") THEN "block" ELSE @.vGuide,
                                   explanation |-> 0]]
          ELSE [m2 EXCEPT !.vis = [metrics |-> IF Has(".metrics") THEN "none" ELSE @.metrics,
                                   dateChip |-> IF Has("dateChip") THEN "none" ELSE @.dateChip,
                                   slider |-> IF Has("chartSlider") THEN "none" ELSE @.slider,
                                   vGuide |-> IF Has("vGuide") THEN "none" ELSE @.vGuide,
                                   explanation |-> IF Has("chart-wrap") THEN 1 ELSE 0]]

\* drawWeeklyComparisonChart reads point[0] of an undefined point: the real
\* series has fewer than 4 points, or both series have the same length below 5
DrawThrows(realData, predictedData) ==
  /\ Len(realData.prices) # 0
  /\ \/ Len(realData.prices) < 4
     \/ Len(predictedData.prices) = Len(realData.prices) /\ Len(predictedData.prices) < 5

drawWeeklyComparisonChart(m, realData, predictedData) ==
  IF Len(realData.prices) = 0 THEN [m EXCEPT !.svg = Chart("nodata", "1W")]
  ELSE IF DrawThrows(realData, predictedData)
       THEN [m EXCEPT !.svg = Chart("partial", "1W"), !.exc = TRUE]
       ELSE [m EXCEPT !.svg = Chart("weekly", "1W")]

\* the callback of Promise.all from setTimeout(..., 100) on: the second pill
\* update is scheduled, then setupWeeklySlider runs
WeeklySetup(m) ==
  IF m.exc THEN m ELSE setupWeeklySlider([m EXCEPT !.timers = @ + 1])

\* ... from currentDayIndex = 4 on
WeeklyShow(m) ==
  IF m.exc THEN m ELSE WeeklySetup(updateDisplayValues([m EXCEPT !.idx = 4], 4))

\* ... from drawWeeklyComparisonChart on
WeeklyDraw(m, histData, predData) ==
  IF m.exc THEN m ELSE WeeklyShow(drawWeeklyComparisonChart(m, histData, predData))

\* a callback that gives up when a later call asked for another period
WeeklyLoadedIfCurrent(m, histData, predData) ==
  IF m.svg.period # "1W" \/ m.vis.explanation # 0 THEN m
  ELSE IF histData.tag = "null" \/ predData.tag = "null"
  THEN [m EXCEPT !.svg = Chart("error", "1W")]
  ELSE WeeklyDraw(RunWrites(m, << Write("startLabel", TRUE, IsoDate(At(histData.dates, 0))),
                                  Write("endLabel", TRUE,
                                        IsoDate(At(histData.dates, Len(histData.dates) - 1))) >>),
                  histData, predData)

\* a callback that asks for the week again when a fetch failed
WeeklyLoadedRetry(m, histData, predData) ==
  IF histData.tag = "null" \/ predData.tag = "null"
  THEN setRangeWithData(m, "1W")
  ELSE WeeklyDraw(RunWrites(m, << Write("startLabel", TRUE, IsoDate(At(histData.dates, 0))),
                                  Write("endLabel", TRUE,
                                        IsoDate(At(histData.dates, Len(histData.dates) - 1))) >>),
                  histData, predData)

\* the callback of Promise.all in the 1W branch
WeeklyLoaded(m, histData, predData) ==
  IF histData.tag = "null" \/ predData.tag = "null"
  THEN [m EXCEPT !.svg = Chart("error", "1W")]
  ELSE WeeklyDraw(RunWrites(m, << Write("startLabel", TRUE, IsoDate(At(histData.dates, 0))),
                                  Write("endLabel", TRUE,
                                        IsoDate(At(histData.dates, Len(histData.dates) - 1))) >>),
                  histData, predData)

\* the callback of loadHistoricalData in the 1M / 1Y branch
StaticLoaded(m, period, data) ==
  IF data = "null" THEN [m EXCEPT !.svg = Chart("error", period)]
  ELSE
    LET a == [m EXCEPT !.svg = Chart("static", period)]
        b == IF data = "labels"
             THEN RunWrites(a, << Write("startLabel", TRUE, Lit("label")),
                                  Write("endLabel", TRUE, Lit("label")) >>)
             ELSE a
    IN IF b.exc THEN b
       ELSE [b EXCEPT !.pills = [pred |-> IF Has("predChange") THEN "" ELSE @.pred,
                                 real |-> IF Has("realPriceChange") THEN "" ELSE @.real]]

Remove(seq, i) == SubSeq(seq, 1, i - 1) \o SubSeq(seq, i + 1, Len(seq))

\* one weekly fetch answers: loadWeekly...Data stores a successful answer in its
\* global; when it is the second of the pair, the Promise.all callback runs
WeeklyAnswer(m, i, which, data) ==
  LET r == IF which = "hist" THEN [m.inflight[i] EXCEPT !.hist = data]
           ELSE [m.inflight[i] EXCEPT !.pred = data]
      m1 == IF data.tag = "null" THEN m
            ELSE IF which = "hist" THEN [m EXCEPT !.wh = data]
            ELSE [m EXCEPT !.wp = data]
  IN IF r.hist.tag = "pending" \/ r.pred.tag = "pending"
     THEN [m1 EXCEPT !.inflight[i] = r]
     ELSE WeeklyLoaded([m1 EXCEPT !.inflight = Remove(@, i)], r.hist, r.pred)

\* ------------------------------------------------------------ page load
\* data.prediction of /api/prediction-detail: the static values shown first
Predictions ==
  { [predicted_change |-> Num(2), real_change |-> Num(-1), difference_pct |-> Num(3)] }

\* `${x}` of a static value the page only shows
Shown(s) == Lit(s)

displayPredictionData(m, prediction) ==
  LET a == RunWrites(m,
             << Write("dateChip", TRUE, Shown("static date")),
                Write("diffVal", TRUE, Shown("static difference")),
                Write("diffChange", TRUE, Percent(prediction.difference_pct)),
                Write("predVal", TRUE, Shown("static predicted price")),
                Write("predChange", TRUE, Percent(prediction.predicted_change)),
                Write("realVal", TRUE, Shown("static real price")),
                Write("realPriceChange", TRUE, Percent(prediction.real_change)) >>)
      b == IF a.exc THEN a
           ELSE updatePillClasses(a, prediction.predicted_change, prediction.real_change)
  IN IF b.exc THEN b ELSE setRangeWithData(b, "1W")

\* ------------------------------------------------------------------ actions
\* the last event: its kind, the key pressed, the pointer's clientX on the track,
\* and, when a Promise.all callback ran in it, what it was called with
\* (loaded) and whether its request was overlapped
Event(op) == [op |-> op, key |-> "", x |-> 0, loaded |-> "", overlapped |-> FALSE]

\* exactly 5 dates and 5 prices
FivePoints(data) == Len(data.dates) = 5 /\ Len(data.prices) = 5

\* what the callback of request r is called with: "" when a fetch of r is still
\* pending, "failed" when one returned null, else "five" or "malformed"
Loaded(r) ==
  IF r.hist.tag = "pending" \/ r.pred.tag = "pending" THEN ""
  ELSE IF r.hist.tag = "null" \/ r.pred.tag = "null" THEN "failed"
  ELSE IF FivePoints(r.hist) /\ FivePoints(r.pred) THEN "five"
  ELSE "malformed"

CallbackEvent(op, r) ==
  [Event(op) EXCEPT !.loaded = Loaded(r), !.overlapped = Loaded(r) # "" /\ r.overlapped]

Count1W(reqs) == Cardinality({i \in 1..Len(reqs) : reqs[i].period = "1W"})

\* the handler's result becomes the next state, within the bounds
Commit(m0, e) ==
  LET m == Settle(m0)
  IN /\ m.calls <= MaxCalls
     /\ Len(m.inflight) <= MaxInFlight
     /\ m.timers <= MaxTimers
     /\ m.listeners <= MaxSetups
     /\ weeklyPredictionData' = m.wp
     /\ weeklyHistoricalData' = m.wh
     /\ currentDayIndex' = m.idx
     /\ inflight' = m.inflight
     /\ disp' = m.disp
     /\ pills' = m.pills
     /\ svg' = m.svg
     /\ vis' = m.vis
     /\ knob' = m.knob
     /\ guide' = m.guide
     /\ width' = m.width
     /\ calls' = m.calls
     /\ listeners' = m.listeners
     /\ drag' = m.drag
     /\ timers' = m.timers
     /\ values' = m.values
     /\ threw' = m.threw
     /\ ev' = e
     /\ UNCHANGED <<missing, backend, discovery>>

Fields == {"dateChip", "diffVal", "diffChange", "predVal", "predChange", "realVal",
           "realPriceChange", "startLabel", "endLabel"}

\* the page after DOMContentLoaded: showLoadingState has run, the prediction
\* fetch is pending
\* the prediction-detail page when its script starts
InitDetail ==
  /\ page = "loading"
  /\ missing \in MissingChoices
  /\ backend \in [hist : HistWeeks, pred : PredWeeks]
  /\ weeklyPredictionData = NullData
  /\ weeklyHistoricalData = NullData
  /\ currentDayIndex = 4
  /\ inflight = <<>>
  /\ disp = [f \in Fields |-> IF f \in {"predVal", "realVal", "diffVal"}
                              THEN Lit("$--") ELSE Lit("")]
  /\ pills = [pred |-> "", real |-> ""]
  /\ svg = Chart("empty", "none")
  /\ vis = [metrics |-> "", dateChip |-> "", slider |-> "", vGuide |-> "", explanation |-> 0]
  /\ knob = [left |-> -2, valuenow |-> -2]
  /\ guide = -2
  /\ width = 300
  /\ calls = 0
  /\ listeners = 0
  /\ drag = 0
  /\ timers = 0
  /\ values = NoValues
  /\ threw = FALSE
  /\ ev = Event("init")

\* what #stocks-container holds: kind of content, and for the stock cards the
\* date the stocks were fetched for and the date written in their links
Box(kind) == [kind |-> kind, stocks |-> 0, link |-> 0]

\* the discovery page not opened
DiscoveryIdle ==
  [server |-> [d \in 1..4 |-> "error"], selectedDate |-> 0, container |-> Box("initial"),
   scanning |-> FALSE, scanIndex |-> 0, tested |-> 0, fetches |-> <<>>, renders |-> <<>>,
   clicks |-> 0, last |-> "none"]

Init == InitDetail /\ discovery = DiscoveryIdle

\* loadPredictionData: the prediction arrives and displayPredictionData runs; it
\* registers the range buttons' listeners last, so a throw leaves the page inert
PredictionLoaded ==
  /\ page = "loading"
  /\ \E prediction \in Predictions :
       LET m == displayPredictionData(Machine, prediction)
       IN /\ page' = IF m.exc THEN "failed" ELSE "ready"
          /\ Commit(m, Event("boot"))

\* loadPredictionData: success:false or a network error, showErrorState
PredictionFailed ==
  /\ page = "loading"
  /\ page' = "failed"
  /\ Commit(Machine, Event("bootfail"))

\* a click on a range button (the one pointer is not held down on the knob);
\* on 1W only while no weekly chart is installed or on its way
RangeClick ==
  /\ page = "ready"
  /\ drag = 0
  /\ \E period \in Periods :
       /\ period = "1W" => listeners + Count1W(inflight) = 0
       /\ Commit(setRangeWithData(Machine, period), Event("range"))
  /\ UNCHANGED page

\* a click on the 1W button while a weekly chart is installed or on its way
ReloadClick ==
  /\ page = "ready"
  /\ drag = 0
  /\ listeners + Count1W(inflight) > 0
  /\ listeners + Count1W(inflight) < MaxSetups
  /\ Commit(setRangeWithData(Machine, "1W"), Event("range"))
  /\ UNCHANGED page

\* a click on any range button at any time; calls stops counting at MaxCalls, so
\* the clicks can go on
RangeSwitch ==
  /\ page = "ready"
  /\ drag = 0
  /\ \E period \in Periods :
       Commit([setRangeWithData(Machine, period) EXCEPT
                 !.calls = IF @ > MaxCalls THEN MaxCalls ELSE @],
              Event("range"))
  /\ UNCHANGED page

\* /api/weekly-historical answers request i, with the week or a failure
HistAnswer ==
  \E i \in 1..Len(inflight) : \E data \in {backend.hist, NullData} :
    /\ inflight[i].period = "1W"
    /\ inflight[i].hist.tag = "pending"
    /\ Commit(WeeklyAnswer(Machine, i, "hist", data),
              CallbackEvent("hist", [inflight[i] EXCEPT !.hist = data]))
    /\ UNCHANGED page

\* /api/weekly-predictions answers request i, with the week or a failure
PredAnswer ==
  \E i \in 1..Len(inflight) : \E data \in {backend.pred, NullData} :
    /\ inflight[i].period = "1W"
    /\ inflight[i].pred.tag = "pending"
    /\ Commit(WeeklyAnswer(Machine, i, "pred", data),
              CallbackEvent("pred", [inflight[i] EXCEPT !.pred = data]))
    /\ UNCHANGED page

\* /api/historical-prices answers request i
StaticAnswer ==
  \E i \in 1..Len(inflight) : \E data \in StaticAnswers :
    /\ inflight[i].period # "1W"
    /\ Commit(StaticLoaded([Machine EXCEPT !.inflight = Remove(@, i)],
                           inflight[i].period, data),
              Event("static"))
    /\ UNCHANGED page

\* pointerdown on the track, which #chartSlider holds and shows
TrackPointerDown ==
  /\ listeners > 0
  /\ drag = 0
  /\ vis.slider = "block"
  /\ \E x \in -1..(PointerGrid + 1) :
       LET e == [Event("track") EXCEPT !.x = x]
       IN Commit(Dispatch(Machine, listeners, e), e)
  /\ UNCHANGED page

\* pointerdown on the knob: each listener starts a drag session
KnobPointerDown ==
  /\ listeners > 0
  /\ vis.slider = "block"
  /\ drag = 0
  /\ LET e == Event("knobdown")
     IN Commit(Dispatch(Machine, listeners, e), e)
  /\ UNCHANGED page

\* pointermove on window; only the move listeners of a drag receive it
PointerMove ==
  /\ page = "ready"
  /\ \E x \in -1..(PointerGrid + 1) :
       Commit(Dispatch(Machine, drag, [Event("move") EXCEPT !.x = x]), Event("move"))
  /\ UNCHANGED page

\* pointerup on window during a drag
PointerUp ==
  /\ drag > 0
  /\ LET e == Event("up")
     IN Commit(Dispatch(Machine, drag, e), e)
  /\ UNCHANGED page

Keys == {"ArrowLeft", "ArrowRight", "Home", "End"}

\* keydown on the knob, which has the focus only while it is shown
KeyPress ==
  /\ listeners > 0
  /\ vis.slider = "block"
  /\ \E key \in Keys :
       LET e == [Event("key") EXCEPT !.key = key]
       IN Commit(Dispatch(Machine, listeners, e), e)
  /\ UNCHANGED page

\* the window is resized to width w
Resize ==
  /\ page = "ready"
  /\ \E w \in Widths :
       LET e == Event("resize")
       IN Commit(Dispatch([Machine EXCEPT !.width = w], listeners, e), e)
  /\ UNCHANGED page

\* one of the pending timeouts fires
TimerFires ==
  /\ timers > 0
  /\ Commit(PillTimer([Machine EXCEPT !.timers = @ - 1]), Event("timer"))
  /\ UNCHANGED page

Next ==
  \/ PredictionLoaded
  \/ PredictionFailed
  \/ RangeClick
  \/ HistAnswer
  \/ PredAnswer
  \/ StaticAnswer
  \/ TrackPointerDown
  \/ KnobPointerDown
  \/ PointerMove
  \/ PointerUp
  \/ KeyPress
  \/ Resize
  \/ TimerFires

Spec == Init /\ [][Next]_vars

\* the page with every element present and a well-formed week on the server,
\* the week being loaded again while it is shown
StandardWeek ==
  [hist |-> Series(Days(5), <<Num(100), Num(102), Num(101), Num(103), Null>>, Num(99)),
   pred |-> Series(Days(5), <<Num(101), Num(103), Num(100), Num(104), Num(105)>>, Undef)]

InitReload == Init /\ missing = {} /\ backend = StandardWeek

\* the week is loaded again; no other period is chosen, the window keeps its width
NextReload ==
  \/ PredictionLoaded
  \/ PredictionFailed
  \/ ReloadClick
  \/ HistAnswer
  \/ PredAnswer
  \/ TrackPointerDown
  \/ KnobPointerDown
  \/ PointerMove
  \/ PointerUp
  \/ KeyPress
  \/ TimerFires

SpecReload == InitReload /\ [][NextReload]_vars

\* the range buttons clicked in any order and number, the slider left alone
NextRange ==
  \/ PredictionLoaded
  \/ PredictionFailed
  \/ RangeSwitch
  \/ HistAnswer
  \/ PredAnswer
  \/ StaticAnswer
  \/ TimerFires

SpecRange == InitReload /\ [][NextRange]_vars

\* the range buttons and the keys of the knob together, the selection followed
\* over the last 1 + MaxBack days
KeyNear == KeyPress /\ currentDayIndex' >= 4 - MaxBack

NextPills ==
  \/ PredictionLoaded
  \/ PredictionFailed
  \/ RangeSwitch
  \/ HistAnswer
  \/ PredAnswer
  \/ StaticAnswer
  \/ TimerFires
  \/ KeyNear

SpecPills == InitReload /\ [][NextPills]_vars

\* ----------------------------------------------------------- discovery page
\* getDates: today and the three days before, oldest first; a date is its place
\* in this list
fullDates == <<1, 2, 3, 4>>

\* the dates tested oldest first
datesOldestFirst == <<1, 2, 3, 4>>

\* [...fullDates].reverse()
datesToTest == <<4, 3, 2, 1>>

\* what /api/stocks does for a date: a successful answer with stocks, a
\* successful answer with an empty list, or success:false / a network error
StockAnswers == {"stocks", "empty", "error"}

\* updateStockDisplay(stocks), stocks being the answer for date: an empty list
\* is reported at once; otherwise currentDate is read from selectedDate and the
\* logo checks are awaited
updateStockDisplay(d, date, answer) ==
  IF answer = "empty" THEN [d EXCEPT !.container = Box("nostocks")]
  ELSE [d EXCEPT !.renders = Append(@, [stocks |-> date, currentDate |-> d.selectedDate])]

\* the logo checks of pending render j are done: the cards are written
CardsWritten(d, j) ==
  [d EXCEPT !.renders = Remove(@, j),
            !.container = [kind |-> "cards", stocks |-> d.renders[j].stocks,
                           link |-> d.renders[j].currentDate]]

\* findValidDateAndLoad from the answer for datesToTest[scanIndex] on
findValidDateAndLoad(d) ==
  LET dateToTest == datesToTest[d.scanIndex + 1]
  IN IF d.server[dateToTest] = "stocks"
     THEN updateStockDisplay([d EXCEPT !.selectedDate = dateToTest, !.scanning = FALSE],
                             dateToTest, "stocks")
     ELSE IF d.scanIndex + 1 < Len(datesToTest)
     THEN [d EXCEPT !.scanIndex = @ + 1, !.tested = @ + 1]
     ELSE [d EXCEPT !.scanning = FALSE,
                    !.selectedDate = fullDates[Len(fullDates)],
                    !.container = Box("asleep")]

\* fetchStocksForDate up to its fetch
fetchStocksForDate(d, date) ==
  [d EXCEPT !.container = Box("loading"), !.fetches = Append(@, date)]

\* fetchStocksForDate from the answer of pending fetch i on
StocksAnswered(d, i) ==
  LET date == d.fetches[i]
  IN IF d.server[date] = "error"
     THEN [d EXCEPT !.fetches = Remove(@, i), !.container = Box("asleep")]
     ELSE updateStockDisplay([d EXCEPT !.fetches = Remove(@, i)], date, d.server[date])

\* the variables of the prediction-detail page
detailVars == <<page, backend, missing, weeklyPredictionData, weeklyHistoricalData,
                currentDayIndex, inflight, disp, pills, svg, vis, knob, guide, width, calls,
                listeners, drag, timers, values, threw, ev>>

\* DOMContentLoaded of the discovery page: renderDates, then findValidDateAndLoad
\* has asked for today's stocks
DiscoveryLoaded ==
  [DiscoveryIdle EXCEPT !.scanning = TRUE, !.tested = 1, !.last = "load"]

InitDiscovery ==
  /\ InitDetail
  /\ missing = {}
  /\ backend = StandardWeek
  /\ discovery \in {[DiscoveryLoaded EXCEPT !.server = s] : s \in [1..4 -> StockAnswers]}

\* /api/stocks answers the request of findValidDateAndLoad
ScanAnswer ==
  /\ discovery.scanning
  /\ discovery' = [findValidDateAndLoad(discovery) EXCEPT !.last = "scan"]
  /\ UNCHANGED detailVars

\* a click on a date of the carousel
DateClick ==
  /\ discovery.clicks < MaxClicks
  /\ \E date \in 1..4 :
       discovery' = [fetchStocksForDate([discovery EXCEPT !.selectedDate = date], date)
                       EXCEPT !.clicks = @ + 1, !.last = "click"]
  /\ UNCHANGED detailVars

\* /api/stocks answers a request of fetchStocksForDate
StocksAnswer ==
  /\ \E i \in 1..Len(discovery.fetches) :
       discovery' = [StocksAnswered(discovery, i) EXCEPT !.last = "stocks"]
  /\ UNCHANGED detailVars

\* the logo checks of a pending updateStockDisplay are done
LogosChecked ==
  /\ \E j \in 1..Len(discovery.renders) :
       discovery' = [CardsWritten(discovery, j) EXCEPT !.last = "cards"]
  /\ UNCHANGED detailVars

NextDiscovery ==
  \/ ScanAnswer
  \/ DateClick
  \/ StocksAnswer
  \/ LogosChecked

SpecDiscovery == InitDiscovery /\ [][NextDiscovery]_vars

\* a pointer that went down on the knob is released: the browser delivers the
\* pointerup to the window listeners
SpecDrag == Spec /\ WF_vars(PointerUp)

\* ------------------------------------------------------------------ claims
\* both weekly globals hold a series
BothLoaded == weeklyPredictionData.tag = "series" /\ weeklyHistoricalData.tag = "series"

\* a price the claims call unknown: null, missing, or not positive
UnknownPrice(price) ==
  price.t \in {"null", "undefined", "nan"} \/ (price.t = "num" /\ price.n <= 0)

\* the metrics fields hold what writing the metrics of day i of the server's week
\* puts there
ShowsDay(i) ==
  LET m == [Machine EXCEPT !.wp = backend.pred, !.wh = backend.hist]
  IN RunWrites(m, DisplayWrites(m, calculateDynamicValues(backend.pred, backend.hist, i), i)).disp
       = disp

\* C1: in every reachable state currentDayIndex is an integer in 0..4 and, when
\* both weekly series are loaded, it is a valid index into the historical and
\* into the predicted series.
C1_IndexValid ==
  /\ currentDayIndex \in 0..4
  /\ BothLoaded =>
       /\ currentDayIndex < Len(weeklyHistoricalData.prices)
       /\ currentDayIndex < Len(weeklyPredictionData.prices)

\* C2: after a Home key press on the knob the selected index is 0, and after an
\* End key press it is 4, whatever it was before.
C2_HomeEnd ==
  ev.op = "key" =>
    /\ ev.key = "Home" => currentDayIndex = 0
    /\ ev.key = "End" => currentDayIndex = 4

\* C3: an ArrowLeft key press moves the selection exactly one step toward 0 and
\* an ArrowRight key press exactly one step toward 4, each clamped at its bound.
C3_ArrowStep ==
  [][ /\ (ev'.op = "key" /\ ev'.key = "ArrowLeft") =>
           currentDayIndex' = (IF currentDayIndex > 0 THEN currentDayIndex - 1 ELSE 0)
      /\ (ev'.op = "key" /\ ev'.key = "ArrowRight") =>
           currentDayIndex' = (IF currentDayIndex < 4 THEN currentDayIndex + 1 ELSE 4)
    ]_vars

\* C4: after a pointer-down on the track at the fraction p = x / PointerGrid in
\* [0, 1], the selected index is the one whose stop is nearest to p, and of two
\* equally near stops the one with the lower index.
C4_NearestStop ==
  (ev.op = "track" /\ ev.x \in 0..PointerGrid) =>
    \A j \in 0..4 :
      /\ Distance(ev.x, currentDayIndex) <= Distance(ev.x, j)
      /\ Distance(ev.x, currentDayIndex) = Distance(ev.x, j) => currentDayIndex <= j

\* the pointer went down halfway between the first two stops and day 0 is selected
C4_Witness ==
  /\ ev.op = "track"
  /\ 2 * Distance(ev.x, 0) = 25 * PointerGrid
  /\ Distance(ev.x, 0) = Distance(ev.x, 1)
  /\ currentDayIndex = 0

\* C5 as stated: every call of setRangeWithData leaves index 4 selected, and
\* when a 1W fetch pair completes successfully index 4 is selected and the
\* metrics shown are those of day 4.
C5_Original ==
  /\ ev.op = "range" => currentDayIndex = 4
  /\ ev.loaded = "five" => (currentDayIndex = 4 /\ ShowsDay(4))

\* C5: every call of setRangeWithData leaves index 4 selected, and when a 1W
\* fetch pair completes successfully, no other fetch having been pending or
\* started while it was in flight, index 4 is selected and the metrics shown are
\* those of day 4.
C5_ResetOnLoad ==
  /\ ev.op = "range" => currentDayIndex = 4
  /\ (ev.loaded = "five" /\ ~ev.overlapped) => (currentDayIndex = 4 /\ ShowsDay(4))

\* the week has been loaded a second time, after the slider was in use
C5_Witness ==
  /\ ev.loaded = "five"
  /\ ~ev.overlapped
  /\ calls = 2
  /\ listeners = 2
  /\ currentDayIndex = 4
  /\ ShowsDay(4)

\* C6: when the 1W fetch pair returns a series that has not exactly 5 points,
\* the chart shows the error placeholder, no slider is installed and no
\* exception is raised.
C6_MalformedIsError ==
  ev.loaded = "malformed" => (svg.kind = "error" /\ listeners = 0 /\ ~threw)

\* C7: when index 4 is selected and rendered and the real price of day 4 is
\* unknown, the real price and the difference show "Unknown", the real change
\* and the difference percentage show "--", and the predicted price and change
\* show their values.
C7_UnknownLastDay ==
  (values.ok /\ currentDayIndex = 4 /\ UnknownPrice(values.real_price)) =>
    /\ disp["realVal"] = Lit("Unknown")
    /\ disp["realPriceChange"] = Lit("--")
    /\ disp["diffVal"] = Lit("Unknown")
    /\ disp["diffChange"] = Lit("--")
    /\ disp["predVal"] = Money(values.predicted_price, 2)
    /\ disp["predChange"] = Percent(values.predicted_change)

\* the End key selected day 4 of a week whose last real price is null
C7_Witness ==
  /\ ev.op = "key"
  /\ values.ok
  /\ currentDayIndex = 4
  /\ values.real_price = Null
  /\ disp["realVal"] = Lit("Unknown")
  /\ disp["predVal"] = Money(Num(105), 2)

\* C8: once the delayed pill updates have run, the real-change pill of an
\* unknown real price is neither "up" nor "down".
C8_TriState ==
  (timers = 0 /\ disp["realPriceChange"] = Lit("--")) => pills.real \notin {"up", "down"}

\* C9: no event and no fetch completion raises an uncaught exception.
C9_NoUncaught == ~threw

\* C10: the changes of a rendered day i > 0 are measured against the historical
\* price of day i - 1; those of day 0 against previous_day_price when it is a
\* positive number, and are both 0 otherwise.
C10_Baseline ==
  values.ok =>
    LET hist == weeklyHistoricalData
        prev == hist.previous_day_price
        base == IF currentDayIndex > 0 THEN At(hist.prices, currentDayIndex - 1) ELSE prev
    IN IF currentDayIndex > 0 \/ (prev.t = "num" /\ prev.n > 0)
       THEN /\ values.predicted_change = PctChange(values.predicted_price, base)
            /\ values.real_change = PctChange(values.real_price, base)
       ELSE /\ values.predicted_change = Num(0)
            /\ values.real_change = Num(0)

\* day 3 is rendered: its changes are measured against the real price of day 2,
\* which differs from the predicted price of day 2
C10_Witness ==
  /\ values.ok
  /\ currentDayIndex = 3
  /\ At(weeklyHistoricalData.prices, 2) = Num(101)
  /\ At(weeklyPredictionData.prices, 2) = Num(100)
  /\ values.predicted_change = PctChange(Num(104), Num(101))

\* C11: for every rendered index with a known real price, difference is the
\* non-negative |predicted_price - real_price| and difference_pct is
\* (predicted_price - real_price) / real_price * 100 with the sign of the signed
\* difference; both are what the difference fields show.
C11_Difference ==
  (values.ok /\ ~UnknownPrice(values.real_price) /\ values.predicted_price.t = "num") =>
    LET p == values.predicted_price
        r == values.real_price
        signed == p.n * r.d - r.n * p.d
    IN /\ values.difference.t = "num"
       /\ values.difference.n >= 0
       /\ values.difference.n * (p.d * r.d) = AbsInt(signed) * values.difference.d
       /\ values.difference_pct.t = "num"
       /\ values.difference_pct.n * (p.d * r.n) = signed * 100 * r.d * values.difference_pct.d
       /\ (values.difference_pct.n < 0) = (signed < 0)
       /\ disp["diffVal"] = Money(values.difference, 1)
       /\ disp["diffChange"] = Percent(values.difference_pct)

\* day 2 is rendered: predicted 100, real 101, so the difference is 1 and its
\* percentage negative
C11_Witness ==
  /\ values.ok
  /\ currentDayIndex = 2
  /\ values.predicted_price = Num(100)
  /\ values.real_price = Num(101)
  /\ values.difference = Num(1)
  /\ values.difference_pct.n < 0
  /\ disp["diffChange"].neg

\* C12: the unknown indicator is shown only while the selected index is 4, and
\* once a day 0..3 has been computed the real-price field shows that day's
\* numeric real price.
C12_UnknownOnlyLast ==
  /\ (disp["realVal"] = Lit("Unknown") => currentDayIndex = 4)
  /\ (values.ok /\ currentDayIndex \in 0..3) =>
        /\ values.real_price.t = "num"
        /\ disp["realVal"] = Money(values.real_price, 2)

\* the metric fields of day i of the loaded series, written out field by field
Metrics(i) ==
  LET v == calculateDynamicValues(weeklyPredictionData, weeklyHistoricalData, i)
  IN /\ v.ok
     /\ disp["dateChip"] = FormatDate(v.date)
     /\ disp["predVal"] = Money(v.predicted_price, 2)
     /\ disp["predChange"] = Percent(v.predicted_change)
     /\ IF i = 4 /\ UnknownPrice(v.real_price)
        THEN /\ disp["realVal"] = Lit("Unknown")
             /\ disp["realPriceChange"] = Lit("--")
             /\ disp["diffVal"] = Lit("Unknown")
             /\ disp["diffChange"] = Lit("--")
        ELSE /\ disp["realVal"] = Money(v.real_price, 2)
             /\ disp["realPriceChange"] = Percent(v.real_change)
             /\ disp["diffVal"] = Money(v.difference, 1)
             /\ disp["diffChange"] = Percent(v.difference_pct)

\* C13: after every selection step taken while both series are loaded, the date,
\* the prices, the changes and the difference on display are the metrics of the
\* current index and the loaded series.
C13_DisplayCurrent ==
  (BothLoaded /\ ev.op \in {"track", "move", "key"}) => Metrics(currentDayIndex)

C15_NoGenerationGuard ==
  /\ (ev.loaded # "" /\ (ev.loaded = "failed" \/ Has("startLabel"))) =>
        (svg.period = "1W" /\ svg.kind # "loading")
  /\ (ev.op = "static") => (svg.period = "1M" /\ svg.kind \in {"static", "error"})

\* 1M was clicked while the weekly fetches were in flight and they answered
\* last: the weekly chart and both weekly series are in place while 1M is active
C15_Witness ==
  /\ ev.overlapped
  /\ ev.loaded = "five"
  /\ calls = 2
  /\ inflight = <<>>
  /\ svg = Chart("weekly", "1W")
  /\ BothLoaded
  /\ vis.slider = "none"
  /\ vis.explanation = 1

\* the step of a weekly pair that ended in a failure shows the error text at
\* once, issues no fetch and starts no timer
FailureShown ==
  (ev'.loaded = "failed") =>
    /\ svg' = Chart("error", "1W")
    /\ calls' = calls
    /\ Len(inflight') = Len(inflight) - 1
    /\ timers' = timers

\* C16 as stated: a failed weekly pair shows the error text at once, with no
\* retry and no timer, and only a range button changes the chart or issues a
\* fetch while the error text is shown.
C16_Original ==
  [][ /\ FailureShown
      /\ (svg = Chart("error", "1W") /\ (svg' # svg \/ calls' # calls)) => ev'.op = "range" ]_vars

\* C16, amended: ... and the error text stays until a range button is used or
\* a fetch that was already in flight answers; no step but a range button issues
\* a fetch.
C16_ErrorStays ==
  [][ /\ FailureShown
      /\ (svg = Chart("error", "1W") /\ calls' # calls) => ev'.op = "range"
      /\ (svg = Chart("error", "1W") /\ svg' # svg) =>
            \/ ev'.op = "range"
            \/ inflight # <<>> /\ ev'.op \in {"hist", "pred", "static"} ]_vars

\* the only weekly pair has failed: the error text is shown, nothing is in
\* flight and no timer is pending
C16_Witness ==
  /\ ev.loaded = "failed"
  /\ svg = Chart("error", "1W")
  /\ calls = 1
  /\ inflight = <<>>
  /\ timers = 0
  /\ listeners = 0

\* the metrics fields
MetricFields ==
  {"predVal", "predChange", "realVal", "realPriceChange", "diffVal", "diffChange"}

\* the text showLoadingState puts in the metrics fields
LoadingText(f) == IF f \in {"predVal", "realVal", "diffVal"} THEN Lit("$--") ELSE Lit("")

\* C17: when a weekly pair has ended in a failure, the error text is in place of
\* the chart, the metrics fields hold their loading-state text and no slider
\* listener is installed.
C17_MissingSeries ==
  (ev.loaded = "failed") =>
    /\ svg = Chart("error", "1W")
    /\ listeners = 0
    /\ \A f \in MetricFields : disp[f] = LoadingText(f)

\* C18: a window resize leaves the selected index as it was and, where the
\* slider has been set up, puts the knob and the guide where that index belongs
\* for the new width (in 1/100 px: 10 px of padding plus the index's share of
\* the width without the padding).
C18_ResizeKeepsIndex ==
  [][ (ev'.op = "resize") =>
        /\ currentDayIndex' = currentDayIndex
        /\ (listeners > 0 /\ currentDayIndex \in 0..4) =>
              /\ guide' = 1000 + 25 * currentDayIndex * (width' - 20)
              /\ knob'.left = 1000 + 25 * currentDayIndex * 280
              /\ knob'.valuenow = 25 * currentDayIndex
        /\ (listeners = 0) => (knob' = knob /\ guide' = guide) ]_vars

\* day 1 is selected and the window has been resized to the wide layout
C18_Witness ==
  /\ ev.op = "resize"
  /\ listeners > 0
  /\ width = 600
  /\ currentDayIndex = 1
  /\ guide = 15500
  /\ knob.valuenow = 25

\* C19: a resize that arrives while no slider has been set up, or while a weekly
\* series is not loaded, throws nothing and leaves the metrics fields, the pills
\* and the pending pill updates as they were.
C19_ResizeUnloaded ==
  [][ (ev'.op = "resize" /\ (listeners = 0 \/ ~BothLoaded)) =>
        /\ ~threw'
        /\ disp' = disp
        /\ pills' = pills
        /\ timers' = timers
        /\ ~values'.ok
        /\ currentDayIndex' = currentDayIndex ]_vars

\* the week was shown, 1M was chosen (which clears the series), and the resize
\* listener has run
C19_Witness ==
  /\ ev.op = "resize"
  /\ listeners > 0
  /\ ~BothLoaded
  /\ vis.slider = "none"
  /\ calls = 2
  /\ ~threw
  /\ disp["realVal"].body \in {"fixed", "Unknown"}

\* a step in which a listener has called updateSliderPosition
SelectionSet ==
  \/ ev'.op \in {"track", "resize"} /\ listeners > 0
  \/ ev'.op = "move" /\ drag > 0
  \/ ev'.op = "key" /\ (ev'.key \in {"Home", "End"} \/ currentDayIndex' # currentDayIndex)

\* C20 as stated: after the selection is set to an index in 0..4 the knob's
\* left offset, as a fraction of the track, is positions[index]
\* (0, 0.25, 0.5, 0.75, 1).
C20_Original ==
  [][ (SelectionSet /\ currentDayIndex' \in 0..4) =>
        knob'.left = 25 * currentDayIndex' * 300 ]_vars

\* C20, amended: after the selection is set to an index in 0..4 the knob's
\* aria-valuenow is 100 * positions[index] and its left offset is
\* (10 + positions[index] * 280) / 300 of the track, which is positions[index]
\* at index 2 only.
C20_MarkerPosition ==
  [][ (SelectionSet /\ currentDayIndex' \in 0..4) =>
        /\ knob'.valuenow = 25 * currentDayIndex'
        /\ knob'.left = 1000 + 25 * currentDayIndex' * 280
        /\ (knob'.left = 25 * currentDayIndex' * 300) = (currentDayIndex' = 2) ]_vars

\* a pointerdown on the track has selected day 0: aria-valuenow is 0 and the knob
\* sits 10/300 into the track
C20_Witness ==
  /\ ev.op = "track"
  /\ currentDayIndex = 0
  /\ knob.valuenow = 0
  /\ knob.left = 1000

\* the knob and the guide are both where day i belongs for the width w
AlignedAt(k, g, w, i) ==
  /\ k.valuenow = 25 * i
  /\ k.left = 1000 + 25 * i * 280
  /\ g = 1000 + 25 * i * (w - 20)

\* C21: after every selection change and every resize the knob offset and the
\* guide offset are those of the selected index, and in no state does one of
\* them belong to another index than the other.
C21_KnobGuideAligned ==
  [][ /\ (SelectionSet /\ currentDayIndex' \in 0..4) =>
            AlignedAt(knob', guide', width', currentDayIndex')
      /\ \/ knob' = knob /\ guide' = guide
         \/ \E i \in 0..4 : AlignedAt(knob', guide', width', i) ]_vars

\* day 3 has been selected on the track in the wide layout
C21_Witness ==
  /\ ev.op = "track"
  /\ width = 600
  /\ currentDayIndex = 3
  /\ knob.valuenow = 75
  /\ guide = 1000 + 75 * 580

\* an arrow key pressed at the bound it points to, while the metrics of that
\* bound can be computed
ArrowAtBound ==
  /\ ev'.op = "key"
  /\ \/ ev'.key = "ArrowLeft" /\ currentDayIndex = 0
     \/ ev'.key = "ArrowRight" /\ currentDayIndex = 4
  /\ calculateDynamicValues(weeklyPredictionData, weeklyHistoricalData, currentDayIndex).ok

\* C22 as stated: a selection beyond 0..4 ends on the nearest bound, and the
\* metrics are recomputed for that bound in the same step.
C22_Original ==
  [][ ArrowAtBound => (currentDayIndex' = currentDayIndex /\ values'.ok) ]_vars

\* C22, amended: no listener asks for an index outside 0..4; an arrow key at
\* the bound it points to calls nothing: the index stays on the bound and no
\* metric is computed, no field, knob or guide written and no pill update
\* scheduled.
C22_BoundKept ==
  [][ /\ currentDayIndex' \in 0..4
      /\ ArrowAtBound =>
            /\ currentDayIndex' = currentDayIndex
            /\ ~values'.ok
            /\ disp' = disp
            /\ knob' = knob
            /\ guide' = guide
            /\ timers' = timers ]_vars

\* ArrowRight was pressed on the last day: nothing was computed and the fields
\* still show the last day
C22_Witness ==
  /\ ev.op = "key"
  /\ ev.key = "ArrowRight"
  /\ currentDayIndex = 4
  /\ BothLoaded
  /\ ~values.ok
  /\ Metrics(4)

\* a step in which a listener has called updateSliderPosition with the index
\* that was already selected, the width being the same
SameIndexSet ==
  /\ SelectionSet
  /\ currentDayIndex' = currentDayIndex
  /\ width' = width

C24_OneStepPerPress ==
  [][ (ev'.op = "key" /\ ev'.key \in {"ArrowLeft", "ArrowRight"}) =>
        AbsInt(currentDayIndex' - currentDayIndex) <= 1 ]_vars

\* style.display of the slider, the guide, the metrics panel and the date chip,
\* and the number of explanation blocks, that belong to a period
UiOf(period) ==
  IF period = "1W"
  THEN [metrics |-> "block", dateChip |-> "block", slider |-> "block", vGuide |-> "block",
        explanation |-> 0]
  ELSE [metrics |-> "none", dateChip |-> "none", slider |-> "none", vGuide |-> "none",
        explanation |-> 1]

\* C25: every call of setRangeWithData (page load or range button) leaves the
\* slider, the guide, the metrics panel and the date chip shown exactly for 1W
\* and one explanation block exactly for the other periods; nothing else
\* changes them, and there is never more than one explanation block.
C25_PeriodUi ==
  [][ /\ (ev'.op \in {"range", "boot"} /\ page' = "ready") =>
            (svg'.kind = "loading" /\ vis' = UiOf(svg'.period))
      /\ (vis' # vis) => ev'.op \in {"range", "boot"}
      /\ vis'.explanation <= 1 ]_vars

\* 1W was clicked while a 1M fetch was pending: the explanation block is gone
\* and the slider is shown
C25_Witness ==
  /\ ev.op = "range"
  /\ Len(inflight) = 2
  /\ inflight[1].period = "1M"
  /\ inflight[2].period = "1W"
  /\ svg = Chart("loading", "1W")
  /\ vis = UiOf("1W")

\* C26: the date in the links of the stock cards on display is the date their
\* stocks were fetched for.
C26_LinkDate ==
  (discovery.container.kind = "cards") =>
    discovery.container.link = discovery.container.stocks

\* the dates for which /api/stocks answers successfully with stocks
Qualifying == {date \in 1..4 : discovery.server[date] = "stocks"}

\* C29: findValidDateAndLoad asks for one date at a time from today backwards;
\* when it ends it has selected the most recent date that has stocks, having
\* asked for no older date, and started to display that date's stocks; when no
\* date has stocks it has asked for all four, selected today and shown the
\* market-asleep image; once it has ended it asks for nothing more.
C29_ScanResult ==
  [][ /\ (discovery'.last = "scan" /\ ~discovery'.scanning) =>
            IF Qualifying # {}
            THEN LET best == CHOOSE date \in Qualifying : \A o \in Qualifying : o <= date
                 IN /\ discovery'.selectedDate = best
                    /\ discovery'.tested = 4 - best + 1
                    /\ \E j \in 1..Len(discovery'.renders) :
                         discovery'.renders[j] = [stocks |-> best, currentDate |-> best]
            ELSE /\ discovery'.selectedDate = 4
                 /\ discovery'.tested = 4
                 /\ discovery'.container = Box("asleep")
      /\ (discovery'.last = "scan" /\ discovery'.scanning) =>
            /\ discovery'.tested = discovery.tested + 1
            /\ \A date \in Qualifying : date <= 4 - discovery.tested
      /\ (~discovery.scanning) =>
            (~discovery'.scanning /\ discovery'.tested = discovery.tested)
      /\ discovery'.tested <= 4 ]_vars

\* today failed and yesterday had no stocks: the day before yesterday was
\* selected after three requests
C29_Witness ==
  /\ discovery.last = "scan"
  /\ ~discovery.scanning
  /\ discovery.server[4] = "error"
  /\ discovery.server[3] = "empty"
  /\ discovery.selectedDate = 2
  /\ discovery.tested = 3

\* the pill of field f carries the class of the sign of the percentage it shows
PillOk(f, cls) == cls = (IF JsGe0(ParsePercent(disp[f])) THEN "up" ELSE "down")

\* the metrics of a day of the week with a known real price are shown and no
\* pill update is pending
PillsSettled ==
  /\ timers = 0
  /\ vis.metrics = "block"
  /\ \E i \in 0..4 : ShowsDay(i) /\ ~UnknownPrice(At(backend.hist.prices, i))

\* C27 as stated: once every pending pill update has run and the real price of
\* the selected day is known, each pill carries the class of the sign of the
\* percentage it shows.
C27_Original ==
  PillsSettled => (PillOk("predChange", pills.pred) /\ PillOk("realPriceChange", pills.real))

\* C27: once every pending pill update has run and the real price of the selected
\* day is known, each pill carries the class of the sign of the percentage it
\* shows, or neither pill carries a class (the answer of a 1M request arrived
\* after the week was shown again and removed both).
C27_PillSigns ==
  PillsSettled =>
    \/ PillOk("predChange", pills.pred) /\ PillOk("realPriceChange", pills.real)
    \/ pills = [pred |-> "", real |-> ""]

\* ArrowLeft selected the day before the last, the pill updates have run, the
\* last of them after the selection, and both pills carry a class
C27_Witness ==
  /\ PillsSettled
  /\ ShowsDay(3)
  /\ ev.op = "timer"
  /\ pills.pred \in {"up", "down"}
  /\ pills.real \in {"up", "down"}

\* a step in which updateDisplayValues has been called: by a listener, or by the
\* callback of a weekly pair that brought two series
DisplayAsked == SelectionSet \/ ev'.loaded \in {"five", "malformed"}

\* after the step both weekly globals hold a series and the selected index lies
\* within the predicted one
CanCompute ==
  /\ BothLoaded'
  /\ currentDayIndex' < Len(weeklyPredictionData'.dates)

\* C28: metrics are computed only while both weekly series are loaded and the
\* index lies within the predicted series; when updateDisplayValues is called
\* otherwise, calculateDynamicValues returns null and no metrics field and no
\* date chip is written.
C28_NoDataNoMetrics ==
  [][ /\ values'.ok => CanCompute
      /\ (DisplayAsked /\ ~CanCompute) =>
            /\ ~values'.ok
            /\ \A f \in MetricFields \cup {"dateChip"} : disp'[f] = disp[f] ]_vars

\* End was pressed while the predicted series has four points: index 4 lies
\* outside it and nothing was computed
C28_Witness ==
  /\ ev.op = "key"
  /\ ev.key = "End"
  /\ BothLoaded
  /\ Len(weeklyPredictionData.dates) = 4
  /\ currentDayIndex = 4
  /\ ~values.ok
  /\ ~threw

\* the callback of a weekly pair has run up to setupWeeklySlider, which found an
\* element missing or no weekly prediction series
SetupRefused ==
  /\ ev'.loaded \in {"five", "malformed"}
  /\ \/ ~Has("chartTrack") \/ ~Has("chartKnob") \/ ~Has("vGuide") \/ ~Has("chart-wrap")
     \/ weeklyPredictionData'.tag = "null"

\* C30: when setupWeeklySlider is called while the track, the knob, the guide or
\* the chart wrap is missing, or while the weekly prediction series is not
\* loaded, no listener is registered, the knob and the guide stay where they
\* were, no drag begins, and the index is the 4 its caller had set.
C30_SetupRefused ==
  [][ SetupRefused =>
        /\ listeners' = listeners
        /\ knob' = knob
        /\ guide' = guide
        /\ drag' = drag
        /\ currentDayIndex' = 4 ]_vars

\* the pair of the page load answered after 1M had been chosen and had cleared
\* the series: the callback drew the week and setupWeeklySlider gave up
C30_Witness ==
  /\ ev.loaded = "five"
  /\ weeklyPredictionData.tag = "null"
  /\ missing = {}
  /\ listeners = 0
  /\ svg.kind = "weekly"
  /\ ~threw

====
